---- MODULE Spec2Model ----
(***************************************************************************)
(* latex2sre: the command-line run of index.js, from module load to exit.   *)
(*                                                                          *)
(* The state is the process state of one run: the resolved locale-data     *)
(* path (process.env.SRE_JSON_PATH, global.SRE_JSON_PATH), the SEA asset    *)
(* accessor, the temporary extraction directories, the two caches           *)
(* (mathmapCache, cache), the accumulated outputs and the output sinks.     *)
(* Each await of processInput / setupSRE separates two actions.             *)
(***************************************************************************)
EXTENDS Integers, Sequences, FiniteSets, TLC

\* ------------------------------------------------------------------ bounds
MaxLines == 3        \* entries of an input file / lines arriving on stdin
MaxEnsureCalls == 2  \* calls of ensureExtractedAssets in one process
MaxBuilds == 2       \* runs of the build-time asset discovery

\* ------------------------------------------------------------- JS values
Undefined == "undefined"
Truthy(v) == v \notin {Undefined, "false", ""}

\* ------------------------------------------------- bytes and UTF-8 text
\* A file content or an asset is a sequence of bytes; a text is a sequence
\* of code points.  Missing stands for "no such asset / no such file".
Missing == <<-1>>
ReplacementChar == 65533
ByteOrderMark == 65279

\* How many continuation bytes the lead byte b asks for (0: none, -1: b is
\* no lead byte).
Needed(b) ==
  IF b < 128 THEN 0
  ELSE IF b >= 194 /\ b <= 223 THEN 1
  ELSE IF b >= 224 /\ b <= 239 THEN 2
  ELSE IF b >= 240 /\ b <= 244 THEN 3
  ELSE -1

\* The range the byte after lead byte b must lie in.
SecondLow(b) == IF b = 224 THEN 160 ELSE IF b = 240 THEN 144 ELSE 128
SecondHigh(b) == IF b = 237 THEN 159 ELSE IF b = 244 THEN 143 ELSE 191

LeadBits(b) ==
  IF b < 128 THEN b
  ELSE IF b <= 223 THEN b - 192
  ELSE IF b <= 239 THEN b - 224
  ELSE b - 240

\* The UTF-8 decoder both TextDecoder and Buffer#toString run: a malformed
\* sequence yields one U+FFFD and decoding resumes at the offending byte.
\* i: next byte; need: continuation bytes still owed; seen: continuation
\* bytes taken for the current code point; cp: its bits so far; lead: its
\* lead byte.
RECURSIVE Utf8DecodeFrom(_, _, _, _, _, _, _)
Utf8DecodeFrom(bytes, i, need, seen, cp, lead, acc) ==
  IF i > Len(bytes)
    THEN IF need > 0 THEN Append(acc, ReplacementChar) ELSE acc
  ELSE LET b == bytes[i] IN
    IF need = 0
      THEN IF Needed(b) = 0
             THEN Utf8DecodeFrom(bytes, i + 1, 0, 0, 0, 0, Append(acc, b))
           ELSE IF Needed(b) = -1
             THEN Utf8DecodeFrom(bytes, i + 1, 0, 0, 0, 0,
                                 Append(acc, ReplacementChar))
           ELSE Utf8DecodeFrom(bytes, i + 1, Needed(b), 0, LeadBits(b), b, acc)
    ELSE LET lo == IF seen = 0 THEN SecondLow(lead) ELSE 128
             hi == IF seen = 0 THEN SecondHigh(lead) ELSE 191
         IN IF b < lo \/ b > hi
              THEN Utf8DecodeFrom(bytes, i, 0, 0, 0, 0,
                                  Append(acc, ReplacementChar))
            ELSE IF need = 1
              THEN Utf8DecodeFrom(bytes, i + 1, 0, 0, 0, 0,
                                  Append(acc, cp * 64 + (b - 128)))
            ELSE Utf8DecodeFrom(bytes, i + 1, need - 1, seen + 1,
                                cp * 64 + (b - 128), lead, acc)

Utf8Decode(bytes) == Utf8DecodeFrom(bytes, 1, 0, 0, 0, 0, <<>>)

\* new TextDecoder('utf-8').decode(buf): the decoder drops a leading byte
\* order mark (ignoreBOM is false by default).
TextDecoderDecode(bytes) ==
  LET t == Utf8Decode(bytes)
  IN IF Len(t) > 0 /\ t[1] = ByteOrderMark THEN Tail(t) ELSE t

\* textFromBuffer(buf): a falsy buffer is the empty text.
textFromBuffer(buf) ==
  IF buf = Missing THEN <<>> ELSE TextDecoderDecode(buf)

\* fs.promises.readFile(file, 'utf8') on the bytes of a file: the read
\* keeps a leading byte order mark.
ReadFileUtf8(bytes) == Utf8Decode(bytes)

\* ------------------------------------------------------ the environment
Locales == {"en", "de"}
FileOf(locale) == locale \o ".json"
Files == {FileOf(l) : l \in Locales}

OverridePath == "/override/mathmaps"
ExePath == "/exe/mathmaps"         \* path.join(dirname(execPath), 'mathmaps')
NmPath == "/node_modules/speech-rule-engine/lib/mathmaps"
TmpPath(n) == "/tmp/latex2sre-" \o ToString(n) \o "/mathmaps"

PlainJson == <<123, 125>>                 \* {}
BomJson == <<239, 187, 191, 123, 125>>    \* a byte order mark, then {}
AssetSamples == {Missing, <<>>, PlainJson, BomJson}

\* The embedded manifest: absent, not JSON, JSON without a files key, or
\* { "files": [...] }.
ManifestSamples ==
  {[kind |-> k, files |-> <<>>] : k \in {"absent", "malformed", "nofiles"}}
  \cup {[kind |-> "ok", files |-> fs] :
          fs \in {<<>>, <<"en.json">>, <<"de.json">>, <<"en.json", "de.json">>,
                  <<"de.json", "en.json">>, <<"en.json", "en.json">>}}

\* What an SRE_JSON_PATH directory that was not extracted by this process
\* holds (the override, the directory next to the executable, node_modules).
InstalledFile(file) == IF file = "en.json" THEN PlainJson ELSE Missing

\* The locales the speech engine asks the custom loader for, in order.
RequestSamples == {<<>>, <<"en">>, <<"de", "en">>, <<"en", "en">>}

\* The embedded locale files of a build.
AssetMaps ==
  {a \in [Files -> AssetSamples] : a["de.json"] \in {Missing, PlainJson}}

EnvAll ==
  [override : {"", OverridePath},
   sea : {"load", "late", "none"},
   exe : BOOLEAN,
   nm : {"unresolvable", "missing", "present"},
   missThrows : BOOLEAN,
   assets : AssetMaps,
   manifest : ManifestSamples,
   requests : RequestSamples]

NoAssets(e) ==
  /\ e.missThrows
  /\ e.manifest = [kind |-> "absent", files |-> <<>>]
  /\ e.assets = [f \in Files |-> Missing]

\* The run reads embedded assets only when an accessor exists and neither
\* the override nor the startup discovery gave a path; the other
\* environments are taken without assets.  An SEA process never looks next
\* to the executable.
AssetsInReach(e) ==
  /\ e.override = ""
  /\ \/ e.sea = "load"
     \/ e.sea = "late" /\ ~e.exe /\ e.nm # "present"

EnvWide ==
  {e \in EnvAll : /\ AssetsInReach(e) \/ NoAssets(e)
                  /\ e.sea = "load" => ~e.exe}

\* A development checkout: no SEA, mathmaps in node_modules.
EnvNarrow ==
  {[override |-> "", sea |-> "none", exe |-> FALSE, nm |-> "present",
    missThrows |-> TRUE, assets |-> [f \in Files |-> Missing],
    manifest |-> [kind |-> "absent", files |-> <<>>],
    requests |-> <<"en">>]}

\* The command line: which flags are given, and whether stdin is a terminal.
ArgvWide ==
  [input : {Undefined, "in.txt"},
   latex : {Undefined, "x"},
   output : {Undefined, "out.txt"},
   stream : BOOLEAN,
   noCache : BOOLEAN,
   tty : BOOLEAN]

\* No input at all on a terminal: the run ends with the help text.
ArgvHelp ==
  {a \in ArgvWide : a.output = Undefined /\ ~a.stream /\ ~a.noCache /\ a.tty
                    /\ a.latex = Undefined /\ a.input = Undefined}
\* A batch file alone.
ArgvFile ==
  {a \in ArgvWide : a.output = Undefined /\ ~a.stream /\ ~a.noCache /\ a.tty
                    /\ a.latex = Undefined /\ a.input # Undefined}

\* A raw input entry (a line of the file or of stdin) and String#trim on it.
RawLines == {" ", "x", " x", "y"}
Trim(line) == CASE line = " " -> ""
                [] line = " x" -> "x"
                [] OTHER -> line

\* What the engines can answer for one expression: a speech text, or a throw.
Speech == {"s1", "s2"}
Throws == "throws"

NL == "\n"
PriorContent == <<"old", NL>>   \* what the output file holds before the run

VARIABLES
  env,            \* the environment of the process (never changes)
  argv,           \* the command line (never changes)
  pc,             \* where the run is
  seaGetAsset,    \* whether the SEA asset accessor is bound
  envPath,        \* process.env.SRE_JSON_PATH ("" when unset)
  globalPath,     \* global.SRE_JSON_PATH ("" when unset)
  extractedDir,   \* extractedDir ("" when null)
  dirs,           \* the temporary directories mkdtemp made, in order
  ensureCalls,    \* calls of ensureExtractedAssets so far
  fsFault,        \* whether mkdtemp, mkdir or writeFile failed in one of them
  html,           \* whether MathJax is initialized
  sreLoaded,      \* whether the SRE API is loaded
  sreJson,        \* the json path handed to setupEngine ("" when none)
  mathmapCache,   \* locale -> text
  loads,          \* the results of the locale loads, as they settle
  inflight,       \* the file reads of loadLocaleFromFs not yet settled
  cache,          \* conversion key -> speech
  history,        \* the conversion requests, in order
  pending,        \* input entries not yet processed
  modes,          \* the input modes taken
  reads,          \* the input sources read
  outputs,        \* the accumulated speech results
  stdout,         \* what was written to standard output
  outFile,        \* the content of the output file
  emitted,        \* everything written to the selected sink, in order
  stderr,         \* the expressions reported to the error stream
  ioFailed,       \* whether a write to the output file failed
  exitCode,       \* -1 while running
  exitCause,
  bpc,            \* where the build-time asset discovery is
  builds,         \* runs of the asset discovery so far
  mathmapsDir,    \* node_modules/speech-rule-engine/lib/mathmaps on disk
  seaCfgFile,     \* sea-config.json on disk
  distDir,        \* whether dist/ exists
  manifestFile,   \* dist/mathmaps-manifest.json on disk
  seaConfig,      \* seaConfig.assets of the running discovery
  jsonFiles       \* files (the .json names) of the running discovery

vars == <<env, argv, pc, seaGetAsset, envPath, globalPath, extractedDir, dirs,
          ensureCalls, fsFault, html, sreLoaded, sreJson, mathmapCache, loads,
          inflight, cache, history, pending, modes, reads, outputs, stdout,
          outFile, emitted, stderr, ioFailed, exitCode, exitCause, bpc, builds,
          mathmapsDir, seaCfgFile, distDir, manifestFile, seaConfig,
          jsonFiles>>

assetVars == <<seaGetAsset, envPath, globalPath, extractedDir, dirs,
               ensureCalls, fsFault>>
engineVars == <<html, sreLoaded, sreJson>>
loadVars == <<mathmapCache, loads, inflight>>
convVars == <<cache, history>>
ioVars == <<pending, modes, reads, outputs, stdout, outFile, emitted, stderr,
            ioFailed>>
exitVars == <<exitCode, exitCause>>
fixedVars == <<env, argv>>
buildVars == <<bpc, builds, mathmapsDir, seaCfgFile, distDir, manifestFile,
               seaConfig, jsonFiles>>
runVars == <<pc, assetVars, engineVars, loadVars, convVars, ioVars, exitVars,
             fixedVars>>

\* A Map as the set of its <<key, value>> entries.
MapHas(map, key) == \E p \in map : p[1] = key
MapGet(map, key) == (CHOOSE p \in map : p[1] = key)[2]
MapSet_Evicting(map, key, value) == {<<key, value>>}
MapSet(map, key, value) == {p \in map : p[1] # key} \cup {<<key, value>>}

\* options.<key> after commander's parse of the command line: the negatable
\* option --no-cache is stored under the key cache (true by default); a key
\* the parser never set (noCache among them) reads as undefined.
Option(key) ==
  CASE key = "input" -> argv.input
    [] key = "output" -> argv.output
    [] key = "locale" -> "en"
    [] key = "domain" -> "mathspeak"
    [] key = "style" -> "default"
    [] key = "modality" -> "speech"
    [] key = "cache" -> IF argv.noCache THEN "false" ELSE "true"
    [] key = "stream" -> IF argv.stream THEN "true" ELSE Undefined
    [] OTHER -> Undefined

latexArg == argv.latex
useCache == ~Truthy(Option("noCache"))

\* ------------------------------------ the build-time asset discovery
\* What the mathmaps directory of the installed speech-rule-engine may hold.
DirNames == {"en.json", "base.json", "manifest.json", "README.md"}

\* f.endsWith('.json')
EndsWithJson(f) == Len(f) >= 5 /\ SubSeq(f, Len(f) - 4, Len(f)) = ".json"

\* `mathmaps/${file}`, the key of a locale file in the asset map.
AssetKeyOf_Bare(file) == file
AssetKeyOf(file) == "mathmaps/" \o file
\* path.relative(root, path.join(sreMathmapsDir, file))
AssetPathOf(file) == "node_modules/speech-rule-engine/lib/mathmaps/" \o file
ManifestKey == "mathmaps/manifest.json"
\* path.relative(root, manifestPath)
ManifestRel == "dist/mathmaps-manifest.json"

\* The assets map sea-config.json may hold before a run of the discovery:
\* none, the entries an earlier run left (of a locale file that is gone
\* since, of the manifest), an entry made by hand.
PriorAssets ==
  {{},
   {<<"mathmaps/old.json", AssetPathOf("old.json")>>,
    <<ManifestKey, ManifestRel>>},
   {<<"mathmaps/en.json", "vendor/en.json">>}}

\* sea-config.json on disk: absent, not JSON, JSON without an assets key,
\* or JSON with one.
SeaCfgSamples ==
  {[kind |-> k, assets |-> {}] : k \in {"absent", "malformed", "noassets"}}
  \cup {[kind |-> "ok", assets |-> a] : a \in PriorAssets}

NoManifest == [written |-> FALSE, files |-> {}]

\* No asset discovery is running.
BuildIdle ==
  /\ bpc = "idle"
  /\ builds = 0
  /\ mathmapsDir = [exists |-> FALSE, names |-> {}]
  /\ seaCfgFile = [kind |-> "absent", assets |-> {}]
  /\ distDir = FALSE
  /\ manifestFile = NoManifest
  /\ seaConfig = {}
  /\ jsonFiles = {}

\* The process state when index.js starts to load.
Fresh ==
  /\ seaGetAsset = FALSE
  /\ envPath = env.override
  /\ globalPath = ""
  /\ extractedDir = ""
  /\ dirs = <<>>
  /\ ensureCalls = 0
  /\ fsFault = FALSE
  /\ html = FALSE
  /\ sreLoaded = FALSE
  /\ sreJson = ""
  /\ mathmapCache = {}
  /\ loads = <<>>
  /\ inflight = <<>>
  /\ cache = {}
  /\ history = <<>>
  /\ pending = <<>>
  /\ modes = {}
  /\ reads = {}
  /\ outputs = <<>>
  /\ stdout = <<>>
  /\ outFile = PriorContent
  /\ emitted = <<>>
  /\ stderr = <<>>
  /\ ioFailed = FALSE
  /\ exitCode = -1
  /\ exitCause = ""

Start == pc = "discovery" /\ Fresh /\ BuildIdle

\* Every environment without input, and one run over a batch file.
InitStartup ==
  /\ \/ env \in EnvWide /\ argv \in ArgvHelp
     \/ env \in EnvNarrow /\ argv \in ArgvFile
  /\ Start
\* Every command line, in a development checkout.
InitCli == env \in EnvNarrow /\ argv \in ArgvWide /\ Start
Init == InitStartup \/ InitCli

\* The build-time asset discovery about to run in a project directory; no
\* latex2sre process runs.
InitBuild ==
  /\ bpc = "check"
  /\ builds = 1
  /\ mathmapsDir \in [exists : BOOLEAN, names : SUBSET DirNames]
  /\ mathmapsDir.exists \/ mathmapsDir.names = {}
  /\ seaCfgFile \in SeaCfgSamples
  /\ distDir \in BOOLEAN
  /\ manifestFile = NoManifest
  /\ seaConfig = {}
  /\ jsonFiles = {}
  /\ env \in EnvNarrow
  /\ argv \in ArgvHelp
  /\ pc = "off"
  /\ Fresh

\* process.exit(code), or the natural end of the run (code 0).
Exit(code, cause) ==
  /\ pc' = "done"
  /\ exitCode' = code
  /\ exitCause' = cause

\* ---------------------------------------------------- startup discovery
\* The path the top-level discovery assigns, "" when it assigns none.
Discovered ==
  IF env.sea = "load" THEN ""
  ELSE IF env.exe THEN ExePath
  ELSE IF env.nm = "present" THEN NmPath
  ELSE ""

\* Module load: SEA detection, then the SRE_JSON_PATH discovery.
Discovery ==
  /\ pc = "discovery"
  /\ seaGetAsset' = (env.sea = "load")
  /\ IF Discovered # ""
       THEN envPath' = Discovered /\ globalPath' = Discovered
       ELSE UNCHANGED <<envPath, globalPath>>
  /\ pc' = "config"
  /\ UNCHANGED <<extractedDir, dirs, ensureCalls, fsFault, engineVars,
                 loadVars, convVars, ioVars, exitVars, fixedVars, buildVars>>

\* Loading the --config file: a file that cannot be read or parsed is fatal.
LoadConfig ==
  /\ pc = "config"
  /\ \E cfg \in {"none", "ok", "bad"} :
       IF cfg = "bad" THEN Exit(1, "config")
       ELSE pc' = "mathjax" /\ UNCHANGED exitVars
  /\ UNCHANGED <<assetVars, engineVars, loadVars, convVars, ioVars, fixedVars, buildVars>>

\* setupMathJax: MathJax.init may reject, which processInput().catch makes
\* an exit with status 1.
setupMathJax ==
  /\ pc = "mathjax"
  /\ \E ok \in BOOLEAN :
       IF ok THEN html' = TRUE /\ pc' = "extract" /\ UNCHANGED exitVars
       ELSE Exit(1, "mathjax setup") /\ UNCHANGED html
  /\ UNCHANGED <<assetVars, sreLoaded, sreJson, loadVars, convVars, ioVars,
                 fixedVars, buildVars>>

\* -------------------------------------------------- ensureExtractedAssets
\* seaGetAsset(key) for a locale file: the bytes of the asset; for a key
\* the build did not embed, node:sea's getAsset throws, and an accessor
\* found on globalThis.sea answers a falsy value (env.missThrows tells
\* which accessor the process has).
AssetBytes(file) == env.assets[file]
AssetThrows(file) == env.assets[file] = Missing /\ env.missThrows

\* The manifest read: getAsset, textFromBuffer, JSON.parse.  No text parses
\* when the asset is absent (getAsset throws, or '' is no JSON) or malformed.
ManifestParses_Always == TRUE
ManifestParses == env.manifest.kind \in {"ok", "nofiles"}
ManifestFiles ==                       \* manifest.files || []
  IF env.manifest.kind = "ok" THEN env.manifest.files ELSE <<>>

\* What can go wrong in the filesystem during one extraction: nothing,
\* mkdtemp, mkdir, or the write of the k-th listed file.
Faults ==
  {[at |-> a, k |-> 0] : a \in {"none", "mkdtemp", "mkdir"}}
  \cup {[at |-> "write", k |-> k] : k \in 1..Len(env.manifest.files)}

\* The write loop from the i-th listed file on: an asset that is not there
\* is skipped (when getAsset answers a falsy value), a throw ends the loop.
RECURSIVE ExtractLoop(_, _, _, _)
ExtractLoop(files, i, written, fault) ==
  IF i > Len(files) THEN [ok |-> TRUE, written |-> written, fs |-> FALSE]
  ELSE LET file == files[i] IN
    IF AssetThrows(file)
      THEN [ok |-> FALSE, written |-> written, fs |-> FALSE]
    ELSE IF AssetBytes(file) = Missing   \* if (!abuf) continue
      THEN ExtractLoop(files, i + 1, written, fault)
    ELSE IF fault.at = "write" /\ fault.k = i
      THEN [ok |-> FALSE, written |-> written, fs |-> TRUE]
    ELSE ExtractLoop(files, i + 1, MapSet(written, file, AssetBytes(file)),
                     fault)

\* if (process.env.SRE_JSON_PATH) return;
AlreadyResolved_NoGuard == FALSE
AlreadyResolved == envPath # ""

\* One call of ensureExtractedAssets under the filesystem fault `fault`.
ensureExtractedAssets(fault) ==
  /\ ensureCalls' = ensureCalls + 1
  /\ IF AlreadyResolved
       THEN UNCHANGED <<seaGetAsset, envPath, globalPath, extractedDir, dirs,
                        fsFault>>
     ELSE
       \* the accessor is looked for again through createRequire
       LET sea == seaGetAsset \/ env.sea = "late"
           loop == ExtractLoop(ManifestFiles, 1, {}, fault)
           made == Len(dirs) + 1
       IN /\ seaGetAsset' = sea
          /\ IF ~sea \/ ~ManifestParses
               THEN UNCHANGED <<envPath, globalPath, extractedDir, dirs,
                                fsFault>>
             ELSE IF fault.at = "mkdtemp"
               THEN /\ fsFault' = TRUE
                    /\ UNCHANGED <<envPath, globalPath, extractedDir, dirs>>
             ELSE IF fault.at = "mkdir"
               THEN /\ dirs' = Append(dirs, [dest |-> FALSE, files |-> {}])
                    /\ fsFault' = TRUE
                    /\ UNCHANGED <<envPath, globalPath, extractedDir>>
             ELSE
               /\ dirs' = Append(dirs, [dest |-> TRUE,
                                        files |-> loop.written])
               /\ fsFault' = (fsFault \/ loop.fs)
               /\ IF loop.ok
                    THEN /\ envPath' = TmpPath(made)
                         /\ globalPath' = TmpPath(made)
                         /\ extractedDir' = TmpPath(made)
                    ELSE UNCHANGED <<envPath, globalPath, extractedDir>>

\* setupSRE, first await: the call of ensureExtractedAssets.
ExtractAssets ==
  /\ pc = "extract"
  /\ \E fault \in Faults : ensureExtractedAssets(fault)
  /\ pc' = "loadsre"
  /\ UNCHANGED <<engineVars, loadVars, convVars, ioVars, exitVars, fixedVars, buildVars>>

\* A further call of ensureExtractedAssets in the same process.
ExtractAssetsAgain ==
  /\ pc = "loadsre"
  /\ ensureCalls < MaxEnsureCalls
  /\ \E fault \in Faults : ensureExtractedAssets(fault)
  /\ UNCHANGED <<pc, engineVars, loadVars, convVars, ioVars, exitVars,
                 fixedVars, buildVars>>

\* getFsJsonPath: the env var, else the global, else the node_modules path
\* ("" when it resolves to nothing).
getFsJsonPath ==
  IF envPath # "" THEN envPath
  ELSE IF globalPath # "" THEN globalPath
  ELSE IF env.nm # "unresolvable" THEN NmPath
  ELSE ""

\* setupSRE, second await: loadSRE; a failed import rejects processInput.
loadSRE_BeforeExtraction ==
  /\ pc = "extract"
  /\ sreLoaded' = TRUE
  /\ pc' = "setupengine"
  /\ UNCHANGED <<assetVars, html, sreJson, loadVars, convVars, ioVars,
                 exitVars, fixedVars, buildVars>>
loadSRE ==
  /\ pc = "loadsre"
  /\ \E ok \in BOOLEAN :
       IF ok THEN sreLoaded' = TRUE /\ pc' = "setupengine"
                  /\ UNCHANGED exitVars
       ELSE Exit(1, "sre setup") /\ UNCHANGED sreLoaded
  /\ UNCHANGED <<assetVars, html, sreJson, loadVars, convVars, ioVars,
                 fixedVars, buildVars>>

\* setupSRE: the options are built and sreSetupEngine is called.
setupEngine ==
  /\ pc = "setupengine"
  /\ sreJson' = getFsJsonPath
  /\ pc' = "engine"
  /\ UNCHANGED <<assetVars, html, sreLoaded, loadVars, convVars, ioVars,
                 exitVars, fixedVars, buildVars>>

\* ---------------------------------------------------------- locale loads
\* The bytes of `file` in directory `base`, Missing when there is no such
\* file.
RECURSIVE TmpIndex(_, _)
TmpIndex(base, n) ==
  IF n = 0 THEN 0 ELSE IF base = TmpPath(n) THEN n ELSE TmpIndex(base, n - 1)

DiskBytes(base, file) ==
  LET n == TmpIndex(base, Len(dirs)) IN
  IF n > 0
    THEN IF dirs[n].dest /\ MapHas(dirs[n].files, file)
           THEN MapGet(dirs[n].files, file) ELSE Missing
  ELSE IF base = ExePath /\ ~env.exe THEN Missing
  ELSE IF base = NmPath /\ env.nm # "present" THEN Missing
  ELSE InstalledFile(file)

\* loadLocaleFromAssets past its cache check.
loadLocaleFromAssets(locale) ==
  IF ~seaGetAsset \/ AssetThrows(FileOf(locale))
    THEN [ok |-> FALSE, text |-> <<>>]
  ELSE [ok |-> TRUE, text |-> textFromBuffer(AssetBytes(FileOf(locale)))]

\* loadLocaleFromFs past its cache check, reading under `base`.
loadLocaleFromFs(base, locale) ==
  IF base = "" \/ DiskBytes(base, FileOf(locale)) = Missing
    THEN [ok |-> FALSE, text |-> <<>>]
  ELSE [ok |-> TRUE, text |-> ReadFileUtf8(DiskBytes(base, FileOf(locale)))]

\* loadLocaleAny(locale), the custom loader handed to the speech engine, up
\* to its first await: the cached text, the embedded asset (read without an
\* await), or a file read under getFsJsonPath that settles later (settled
\* is FALSE, base is the directory read).
loadLocaleAny(locale) ==
  IF MapHas(mathmapCache, locale)
    THEN [settled |-> TRUE, from |-> "cache", ok |-> TRUE,
          text |-> MapGet(mathmapCache, locale), base |-> ""]
  ELSE IF seaGetAsset /\ envPath = ""
    THEN [settled |-> TRUE, from |-> "assets",
          ok |-> loadLocaleFromAssets(locale).ok,
          text |-> loadLocaleFromAssets(locale).text, base |-> ""]
  ELSE IF getFsJsonPath = ""
    THEN [settled |-> TRUE, from |-> "fs", ok |-> FALSE, text |-> <<>>,
          base |-> ""]
  ELSE [settled |-> FALSE, from |-> "fs", ok |-> FALSE, text |-> <<>>,
        base |-> getFsJsonPath]

\* The sequence s without its i-th element.
Without(s, i) == SubSeq(s, 1, i - 1) \o SubSeq(s, i + 1, Len(s))

\* The speech engine asks the custom loader for a locale during its setup;
\* it may ask for the next one while file reads are outstanding.
LoadLocale ==
  /\ pc = "engine"
  /\ Len(loads) + Len(inflight) < Len(env.requests)
  /\ LET locale == env.requests[Len(loads) + Len(inflight) + 1]
         r == loadLocaleAny(locale) IN
       IF r.settled
         THEN /\ mathmapCache' = IF r.ok /\ r.from # "cache"
                                   THEN MapSet(mathmapCache, locale, r.text)
                                 ELSE mathmapCache
              /\ loads' = Append(loads, [locale |-> locale, from |-> r.from,
                                         ok |-> r.ok, text |-> r.text])
              /\ UNCHANGED inflight
       ELSE /\ inflight' = Append(inflight, [locale |-> locale,
                                             base |-> r.base])
            /\ UNCHANGED <<mathmapCache, loads>>
  /\ UNCHANGED <<pc, assetVars, engineVars, convVars, ioVars, exitVars,
                 fixedVars, buildVars>>

\* An outstanding readFile of loadLocaleFromFs settles, in any order: the
\* text is stored in mathmapCache and returned, or the read rejects.
ReadSettles ==
  /\ pc = "engine"
  /\ \E i \in 1..Len(inflight) :
       LET locale == inflight[i].locale
           r == loadLocaleFromFs(inflight[i].base, locale) IN
       /\ mathmapCache' = IF r.ok THEN MapSet(mathmapCache, locale, r.text)
                          ELSE mathmapCache
       /\ loads' = Append(loads, [locale |-> locale, from |-> "fs",
                                  ok |-> r.ok, text |-> r.text])
       /\ inflight' = Without(inflight, i)
  /\ UNCHANGED <<pc, assetVars, engineVars, convVars, ioVars, exitVars,
                 fixedVars, buildVars>>

\* sreSetupEngine / engineReady settle: a rejection is fatal.
engineReady ==
  /\ pc = "engine"
  /\ Len(loads) = Len(env.requests)
  /\ \E ok \in BOOLEAN :
       IF ok THEN pc' = "select" /\ UNCHANGED exitVars
       ELSE Exit(1, "sre setup")
  /\ UNCHANGED <<assetVars, engineVars, loadVars, convVars, ioVars,
                 fixedVars, buildVars>>

\* ------------------------------------------------------- convertToSpeech
\* The cache key of an expression under the options of this run.
Key(latex) ==
  latex \o "|" \o Option("locale") \o "|" \o Option("domain") \o "|"
        \o Option("style") \o "|" \o Option("modality")

\* if (useCache && cache.has(key))
CacheHit_Never(key) == FALSE
CacheHit(key) == useCache /\ MapHas(cache, key)

\* convertToSpeech(latex) when the engines answer `answer` (a speech text,
\* or Throws when html.convert or sreToSpeech throws).  engine tells whether
\* the engines were invoked; cache is the cache after the call.
convertToSpeech(latex, answer) ==
  IF ~html
    THEN [ok |-> FALSE, speech |-> "", engine |-> FALSE, cache |-> cache]
  ELSE IF CacheHit(Key(latex))
    THEN [ok |-> TRUE, speech |-> MapGet(cache, Key(latex)),
          engine |-> FALSE, cache |-> cache]
  ELSE IF answer = Throws
    THEN [ok |-> FALSE, speech |-> "", engine |-> TRUE, cache |-> cache]
  ELSE [ok |-> TRUE, speech |-> answer, engine |-> TRUE,
        cache |-> IF useCache THEN MapSet(cache, Key(latex), answer)
                  ELSE cache]

Request(latex, r) ==
  [expr |-> latex, ok |-> r.ok, speech |-> r.speech, engine |-> r.engine]

\* ------------------------------------------------------------ text output
\* outputs.join('\n'), as the sequence of its pieces.
RECURSIVE Join(_)
Join(list) ==
  IF list = <<>> THEN <<>>
  ELSE IF Len(list) = 1 THEN <<list[1]>>
  ELSE <<list[1], NL>> \o Join(Tail(list))

\* fs.writeFile(path, text): the file holds text alone afterwards.
WriteFile(content, text) == text
\* fs.appendFile(path, text)
AppendFile(content, text) == content \o text

\* ----------------------------------------------------------- processInput
\* The input mode processInput takes: the if / else-if chain on
\* options.input, latexArg and process.stdin.isTTY.
InputMode_ArgFirst ==
  IF Truthy(latexArg) THEN "arg"
  ELSE IF Truthy(Option("input")) THEN "file"
  ELSE IF ~argv.tty THEN "stdin"
  ELSE "help"
InputMode ==
  IF Truthy(Option("input")) THEN "file"
  ELSE IF Truthy(latexArg) THEN "arg"
  ELSE IF ~argv.tty THEN "stdin"
  ELSE "help"

\* content.split(delimiter) yields at least one piece.
FileContents == UNION {[1..n -> RawLines] : n \in 1..MaxLines}
StdinContents == UNION {[1..n -> RawLines] : n \in 0..MaxLines}
Answers == Speech \cup {Throws}

\* process.exit(1) after the conversion of the literal argument failed.
ArgErrorStatus_Success == 1 - 1
ArgErrorStatus == 1

\* processInput after the engines are set up: the input is determined; the
\* file is read, or the literal argument converted.
SelectInput ==
  /\ pc = "select"
  /\ modes' = modes \cup {InputMode}
  /\ CASE InputMode = "file" ->
            /\ reads' = reads \cup {"file"}
            /\ \E content \in FileContents, readOk \in BOOLEAN :
                 IF readOk
                   THEN pending' = content /\ pc' = "lines"
                        /\ UNCHANGED exitVars
                 ELSE Exit(1, "input read") /\ UNCHANGED pending
            /\ UNCHANGED <<convVars, outputs, stderr>>
       [] InputMode = "arg" ->
            /\ reads' = reads \cup {"arg"}
            /\ \E answer \in Answers :
                 LET r == convertToSpeech(latexArg, answer) IN
                 /\ cache' = r.cache
                 /\ history' = Append(history, Request(latexArg, r))
                 /\ IF r.ok
                      THEN /\ outputs' = Append(outputs, r.speech)
                           /\ pc' = "output"
                           /\ UNCHANGED <<stderr, exitVars>>
                      ELSE /\ stderr' = Append(stderr,
                                [kind |-> "conversion", expr |-> latexArg])
                           /\ Exit(ArgErrorStatus, "conversion")
                           /\ UNCHANGED outputs
            /\ UNCHANGED pending
       [] InputMode = "stdin" ->
            /\ reads' = reads \cup {"stdin"}
            /\ \E content \in StdinContents :
                 /\ pending' = content
                 /\ pc' = IF content = <<>> THEN "output" ELSE "lines"
            /\ UNCHANGED <<convVars, outputs, stderr, exitVars>>
       [] InputMode = "help" ->
            /\ Exit(0, "help")
            /\ UNCHANGED <<convVars, pending, reads, outputs, stderr>>
  /\ UNCHANGED <<assetVars, engineVars, loadVars, stdout, outFile, emitted,
                 ioFailed, fixedVars, buildVars>>

\* One turn of the file loop or of the stdin loop: the next entry is
\* trimmed, skipped when blank, else converted and streamed or accumulated.
ProcessLine ==
  /\ pc = "lines"
  /\ pending # <<>>
  /\ pending' = Tail(pending)
  /\ pc' = IF Tail(pending) = <<>> THEN "output" ELSE "lines"
  /\ LET trimmed == Trim(Head(pending)) IN
     IF trimmed = ""
       THEN UNCHANGED <<convVars, outputs, stdout, outFile, emitted, stderr,
                        ioFailed>>
     ELSE \E answer \in Answers, appendOk \in BOOLEAN :
       LET r == convertToSpeech(trimmed, answer)
           line == <<r.speech, NL>>
       IN /\ cache' = r.cache
          /\ history' = Append(history, Request(trimmed, r))
          /\ IF ~r.ok
               THEN /\ stderr' = Append(stderr, [kind |-> "conversion",
                                                 expr |-> trimmed])
                    /\ UNCHANGED <<outputs, stdout, outFile, emitted,
                                   ioFailed>>
             ELSE IF ~Truthy(Option("stream"))
               THEN /\ outputs' = Append(outputs, r.speech)
                    /\ UNCHANGED <<stdout, outFile, emitted, stderr,
                                   ioFailed>>
             ELSE IF ~Truthy(Option("output"))
               THEN /\ stdout' = stdout \o line
                    /\ emitted' = emitted \o line
                    /\ UNCHANGED <<outputs, outFile, stderr, ioFailed>>
             ELSE IF appendOk
               THEN /\ outFile' = AppendFile(outFile, line)
                    /\ emitted' = emitted \o line
                    /\ UNCHANGED <<outputs, stdout, stderr, ioFailed>>
             ELSE \* appendOut rejects inside the try of the loop
                  /\ stderr' = Append(stderr, [kind |-> "io",
                                               expr |-> trimmed])
                  /\ ioFailed' = TRUE
                  /\ UNCHANGED <<outputs, stdout, outFile, emitted>>
  /\ UNCHANGED <<assetVars, engineVars, loadVars, modes, reads, exitVars,
                 fixedVars, buildVars>>

\* The batch output after the input is exhausted, then the end of the run.
BatchOutput ==
  /\ pc = "output"
  /\ LET text == Join(outputs) \o <<NL>> IN
     IF Truthy(Option("stream"))
       THEN /\ Exit(0, "end")
            /\ UNCHANGED <<stdout, outFile, emitted, ioFailed>>
     ELSE IF ~Truthy(Option("output"))
       THEN /\ stdout' = stdout \o text
            /\ emitted' = emitted \o text
            /\ Exit(0, "end")
            /\ UNCHANGED <<outFile, ioFailed>>
     ELSE \E writeOk \in BOOLEAN :
       IF writeOk
         THEN /\ outFile' = WriteFile(outFile, text)
              /\ emitted' = emitted \o text
              /\ Exit(0, "end")
              /\ UNCHANGED <<stdout, ioFailed>>
       ELSE /\ ioFailed' = TRUE
            /\ Exit(1, "output write")
            /\ UNCHANGED <<stdout, outFile, emitted>>
  /\ UNCHANGED <<assetVars, engineVars, loadVars, convVars, pending, modes,
                 reads, outputs, stderr, fixedVars, buildVars>>

\* ------------------------------------------- build-time asset discovery
\* process.exit(1), or an uncaught exception, in the discovery script.
BuildFails ==
  /\ bpc' = "failed"
  /\ UNCHANGED <<mathmapsDir, seaCfgFile, distDir, manifestFile, seaConfig,
                 jsonFiles>>

\* main: both paths must exist.
CheckPaths ==
  /\ bpc = "check"
  /\ IF ~mathmapsDir.exists \/ seaCfgFile.kind = "absent"
       THEN BuildFails
     ELSE /\ bpc' = "read"
          /\ UNCHANGED <<mathmapsDir, seaCfgFile, distDir, manifestFile,
                         seaConfig, jsonFiles>>
  /\ UNCHANGED <<builds, runVars>>

\* seaConfig = JSON.parse(readFileSync(seaCfgPath)), and
\* seaConfig.assets = seaConfig.assets || {}.
ReadSeaConfig ==
  /\ bpc = "read"
  /\ IF seaCfgFile.kind = "malformed"
       THEN BuildFails
     ELSE /\ seaConfig' = seaCfgFile.assets
          /\ bpc' = "list"
          /\ UNCHANGED <<mathmapsDir, seaCfgFile, distDir, manifestFile,
                         jsonFiles>>
  /\ UNCHANGED <<builds, runVars>>

\* files.forEach(file => seaConfig.assets[`mathmaps/${file}`] = ...) over
\* the names not yet visited.
RECURSIVE AddAssets(_, _)
AddAssets(assets, names) ==
  IF names = {} THEN assets
  ELSE LET file == CHOOSE f \in names : TRUE
       IN AddAssets(MapSet(assets, AssetKeyOf(file), AssetPathOf(file)),
                    names \ {file})

\* files = readdirSync(sreMathmapsDir).filter(...), then the forEach.  (The
\* order readdirSync gives the names in is left aside: files is their set.)
ListAssets ==
  /\ bpc = "list"
  /\ jsonFiles' = {f \in mathmapsDir.names : EndsWithJson(f)}
  /\ seaConfig' = AddAssets(seaConfig, jsonFiles')
  /\ bpc' = "dist"
  /\ UNCHANGED <<mathmapsDir, seaCfgFile, distDir, manifestFile>>
  /\ UNCHANGED <<builds, runVars>>

\* if (!fs.existsSync(distDir)) fs.mkdirSync(distDir), which may throw.
MakeDist ==
  /\ bpc = "dist"
  /\ IF distDir
       THEN /\ bpc' = "manifest"
            /\ UNCHANGED <<mathmapsDir, seaCfgFile, distDir, manifestFile,
                           seaConfig, jsonFiles>>
     ELSE \E ok \in BOOLEAN :
       IF ok
         THEN /\ distDir' = TRUE
              /\ bpc' = "manifest"
              /\ UNCHANGED <<mathmapsDir, seaCfgFile, manifestFile, seaConfig,
                             jsonFiles>>
       ELSE BuildFails
  /\ UNCHANGED <<builds, runVars>>

\* The manifest { files } is written, then registered in the asset map.
WriteManifest ==
  /\ bpc = "manifest"
  /\ \E ok \in BOOLEAN :
       IF ok
         THEN /\ manifestFile' = [written |-> TRUE, files |-> jsonFiles]
              /\ seaConfig' = MapSet(seaConfig, ManifestKey, ManifestRel)
              /\ bpc' = "config"
              /\ UNCHANGED <<mathmapsDir, seaCfgFile, distDir, jsonFiles>>
       ELSE BuildFails
  /\ UNCHANGED <<builds, runVars>>

\* fs.writeFileSync(seaCfgPath, JSON.stringify(seaConfig, null, 2) + '\n')
WriteSeaConfig ==
  /\ bpc = "config"
  /\ \E ok \in BOOLEAN :
       IF ok
         THEN /\ seaCfgFile' = [kind |-> "ok", assets |-> seaConfig]
              /\ bpc' = "done"
              /\ UNCHANGED <<mathmapsDir, distDir, manifestFile, seaConfig,
                             jsonFiles>>
       ELSE BuildFails
  /\ UNCHANGED <<builds, runVars>>

\* The discovery is run again, after the installed speech-rule-engine may
\* have changed (a reinstall, an upgrade).
Rebuild ==
  /\ bpc \in {"done", "failed"}
  /\ builds < MaxBuilds
  /\ builds' = builds + 1
  /\ \E names \in SUBSET DirNames :
       mathmapsDir' = [exists |-> TRUE, names |-> names]
  /\ bpc' = "check"
  /\ seaConfig' = {}
  /\ jsonFiles' = {}
  /\ UNCHANGED <<seaCfgFile, distDir, manifestFile, runVars>>

NextBuild ==
  \/ CheckPaths
  \/ ReadSeaConfig
  \/ ListAssets
  \/ MakeDist
  \/ WriteManifest
  \/ WriteSeaConfig
  \/ Rebuild

Next ==
  \/ Discovery
  \/ LoadConfig
  \/ setupMathJax
  \/ ExtractAssets
  \/ ExtractAssetsAgain
  \/ loadSRE
  \/ setupEngine
  \/ LoadLocale
  \/ ReadSettles
  \/ engineReady
  \/ SelectInput
  \/ ProcessLine
  \/ BatchOutput

Spec == Init /\ [][Next]_vars
SpecStartup == InitStartup /\ [][Next]_vars
SpecCli == InitCli /\ [][Next]_vars
SpecBuild == InitBuild /\ [][NextBuild]_vars

\* ------------------------------------------------------------- properties
\* The lines of a text given as its pieces: the text is cut at every NL; a
\* text that ends in NL has no further (empty) line after it.
RECURSIVE LinesFrom(_, _, _)
LinesFrom(pieces, current, acc) ==
  IF pieces = <<>>
    THEN IF current = "" THEN acc ELSE Append(acc, current)
  ELSE IF Head(pieces) = NL
    THEN LinesFrom(Tail(pieces), "", Append(acc, current))
  ELSE LinesFrom(Tail(pieces), current \o Head(pieces), acc)

Lines(pieces) == LinesFrom(pieces, "", <<>>)

\* The speech texts of the requests that succeeded, in request order.
RECURSIVE Results(_)
Results(requests) ==
  IF requests = <<>> THEN <<>>
  ELSE IF Head(requests).ok
    THEN <<Head(requests).speech>> \o Results(Tail(requests))
  ELSE Results(Tail(requests))

\* The expressions of the requests that failed, in request order.
RECURSIVE Failures(_)
Failures(requests) ==
  IF requests = <<>> THEN <<>>
  ELSE IF ~Head(requests).ok
    THEN <<[kind |-> "conversion", expr |-> Head(requests).expr]>>
         \o Failures(Tail(requests))
  ELSE Failures(Tail(requests))

Done == pc = "done"
BatchMode == modes \cap {"file", "stdin"} # {}

\* C1: with caching enabled, a request for an expression that an earlier
\* request of the run converted successfully (same expression, locale,
\* domain, style and modality, hence the same key) returns the speech of the
\* earlier request and does not invoke the engines.
C1_RepeatServedFromCache ==
  useCache =>
    \A i, j \in 1..Len(history) :
      (i < j /\ history[i].ok /\ Key(history[i].expr) = Key(history[j].expr))
        => /\ history[j].ok
           /\ history[j].speech = history[i].speech
           /\ ~history[j].engine

\* A run in which the second request repeats the first, which succeeded
\* through the engines.
C1_Witness ==
  /\ useCache
  /\ Len(history) >= 2
  /\ history[1].ok /\ history[1].engine
  /\ history[2].expr = history[1].expr
  /\ ~history[2].engine

\* C2: with --no-cache given, nothing is ever stored in the conversion cache
\* and every request goes through the engines.
C2_NoCacheRecomputes ==
  argv.noCache =>
    /\ cache = {}
    /\ \A i \in 1..Len(history) : history[i].engine

\* C3: an SRE_JSON_PATH set when the process starts stays the resolved path
\* of the run and is the path handed to the speech engine, whatever exists
\* next to the executable, in node_modules or among the embedded assets.
C3_OverrideWins ==
  env.override # "" =>
    /\ envPath = env.override
    /\ pc \in {"engine", "select", "lines", "output"} =>
         sreJson = env.override

\* C4: once a call of ensureExtractedAssets has succeeded, a further call
\* makes no directory, writes no file and leaves the resolved path as the
\* first call set it; the one call the run itself makes leaves at most one
\* directory, and none is made after a success.
C4_ExtractionIdempotent ==
  /\ [][(extractedDir # "" /\ ensureCalls' > ensureCalls)
          => /\ dirs' = dirs
             /\ envPath' = envPath
             /\ globalPath' = globalPath
             /\ extractedDir' = extractedDir]_vars
  /\ [][extractedDir # "" => Len(dirs') = Len(dirs)]_vars
  /\ [](ensureCalls <= 1 => Len(dirs) <= 1)

\* Two calls, the first of which extracted.
C4_Witness ==
  /\ ensureCalls = 2
  /\ Len(dirs) = 1
  /\ extractedDir = TmpPath(1)
  /\ envPath = extractedDir

\* The run reached ensureExtractedAssets with no path resolved, an asset
\* accessor and a manifest that parses.
ExtractionAttempted ==
  /\ ensureCalls >= 1
  /\ env.override = "" /\ Discovered = ""
  /\ seaGetAsset
  /\ ManifestParses

SomeListedAssetMissing ==
  /\ \E i \in 1..Len(ManifestFiles) : AssetBytes(ManifestFiles[i]) = Missing
  /\ \E i \in 1..Len(ManifestFiles) : AssetBytes(ManifestFiles[i]) # Missing

\* C5: when some of the files the manifest lists cannot be read from the
\* embedded assets (and the filesystem does not fail), the extraction still
\* succeeds: the resolved path is the extraction directory, which holds
\* every other listed file.
C5_PartialExtractionTolerated ==
  (ExtractionAttempted /\ SomeListedAssetMissing /\ ~fsFault) =>
    /\ extractedDir # ""
    /\ envPath = extractedDir
    /\ \A i \in 1..Len(ManifestFiles) :
         AssetBytes(ManifestFiles[i]) # Missing =>
           DiskBytes(extractedDir, ManifestFiles[i])
             = AssetBytes(ManifestFiles[i])

\* C6: after an extraction, every locale the manifest lists (and the build
\* embedded) loads to the same text from the embedded assets as from the
\* extracted copy.
C6_RoundTrip ==
  extractedDir # "" =>
    \A locale \in Locales :
      (/\ \E i \in 1..Len(ManifestFiles) : ManifestFiles[i] = FileOf(locale)
       /\ AssetBytes(FileOf(locale)) # Missing)
        => loadLocaleFromAssets(locale)
             = loadLocaleFromFs(extractedDir, locale)

\* The mode the priority order file, literal argument, stdin, help gives.
ModeByPriority ==
  IF argv.input # Undefined THEN "file"
  ELSE IF argv.latex # Undefined THEN "arg"
  ELSE IF ~argv.tty THEN "stdin"
  ELSE "help"

InputSelected ==
  \/ pc \in {"lines", "output"}
  \/ Done /\ exitCause \in {"help", "end", "input read", "conversion",
                            "output write"}

\* C7: once the input is determined exactly one mode is taken, the one the
\* priority order gives; no other input source is read or converted, and
\* the help mode ends the run with status 0 and converts nothing.  Before
\* that no input is read.
C7_ModeByPriority ==
  /\ InputSelected =>
       /\ modes = {ModeByPriority}
       /\ reads = modes \ {"help"}
       /\ ModeByPriority = "arg" =>
            Len(history) = 1 /\ history[1].expr = argv.latex
       /\ ModeByPriority = "help" =>
            exitCode = 0 /\ history = <<>> /\ emitted = <<>>
  /\ ~InputSelected => modes = {} /\ reads = {} /\ history = <<>>

\* A file and a literal argument given, stdin piped: the file is processed.
C7_Witness ==
  /\ Done /\ exitCause = "end"
  /\ argv.input # Undefined /\ argv.latex # Undefined /\ ~argv.tty
  /\ modes = {"file"} /\ reads = {"file"}
  /\ Len(history) >= 1

\* C8: in file and stdin modes, when the run ends (and no write to the
\* output failed) the emitted lines are the speech results of the entries
\* that converted, one line each, in input order; the entries that failed
\* are the ones reported to the error stream, and every entry was processed.
C8_OutputLinesAreResults ==
  (Done /\ exitCode = 0 /\ BatchMode /\ ~ioFailed) =>
    /\ Lines(emitted) = Results(history)
    /\ stderr = Failures(history)
    /\ pending = <<>>

\* C9, as stated: a conversion error never ends the run with a non-zero
\* status, in any input mode; a non-zero status comes from a configuration
\* error or an engine setup failure alone.
C9_OnlySetupAndConfigFatal ==
  (Done /\ exitCode # 0) =>
    /\ exitCause # "conversion"
    /\ exitCause \in {"config", "mathjax setup", "sre setup"}

\* C9, amended: in file and stdin modes a conversion error never ends the
\* run (the remaining entries are processed); in literal-argument mode it
\* ends the run with status 1.  The run ends with a non-zero status exactly
\* for a configuration error, an engine setup failure, an unreadable input
\* file, an unwritable output file, or a failed conversion of the literal
\* argument.
C9_FatalErrors ==
  Done =>
    /\ exitCode \in {0, 1}
    /\ exitCode # 0 <=>
         exitCause \in {"config", "mathjax setup", "sre setup", "input read",
                        "output write", "conversion"}
    /\ exitCause = "conversion" <=>
         (modes = {"arg"} /\ Len(history) = 1 /\ ~history[1].ok)
    /\ BatchMode /\ exitCause # "input read" =>
         /\ pending = <<>>
         /\ exitCause \in {"end", "output write"}

\* A stdin run that ends with status 0 after a conversion failed, and a
\* later entry converted.
C9_Witness ==
  /\ Done /\ exitCode = 0 /\ modes = {"stdin"}
  /\ Len(history) = 2
  /\ ~history[1].ok /\ history[2].ok

\* C10: when an output file is given, what it held before the run is still
\* there after the run, followed by the new output, in both output modes.
C10_OutputFileAppended ==
  (Done /\ exitCode = 0 /\ argv.output # Undefined /\ ~ioFailed
        /\ exitCause = "end") =>
    outFile = PriorContent \o emitted

\* Whether the build embedded the file of `locale` and the process can read
\* embedded assets; whether the resolved directory holds the file.
EmbeddedData(locale) == seaGetAsset /\ AssetBytes(FileOf(locale)) # Missing
DiskData(locale) ==
  getFsJsonPath # "" /\ DiskBytes(getFsJsonPath, FileOf(locale)) # Missing
\* Whether the source loadLocaleAny reads from has the file.
SourceData(locale) ==
  IF seaGetAsset /\ envPath = "" THEN EmbeddedData(locale)
  ELSE DiskData(locale)

\* C11: a load of a locale that neither the embedded assets nor the
\* resolved directory holds fails: it never yields a text (the empty text
\* included), at the first request or at a later one; a load of a locale
\* the source holds succeeds.
C11_MissingLocaleFails ==
  \A i \in 1..Len(loads) :
    /\ (~EmbeddedData(loads[i].locale) /\ ~DiskData(loads[i].locale))
         => ~loads[i].ok
    /\ SourceData(loads[i].locale) => loads[i].ok

\* C12: the resolved locale-data path is set at most once: once
\* process.env.SRE_JSON_PATH or global.SRE_JSON_PATH has a value (a value
\* given at process start included) no step of the run changes it.
C12_PathSetOnce ==
  /\ [][envPath # "" => envPath' = envPath]_vars
  /\ [][globalPath # "" => globalPath' = globalPath]_vars

\* C13: after a run of the asset discovery, every name the written manifest
\* lists has the entry mathmaps/<name> in the assets map of sea-config.json
\* (leading to the file of that name, unless the name is that of the
\* manifest itself), and the manifest is registered as
\* mathmaps/manifest.json; so too when sea-config.json held entries before.
C13_ManifestFilesEmbedded ==
  bpc = "done" =>
    /\ seaCfgFile.kind = "ok"
    /\ manifestFile.written
    /\ manifestFile.files = {f \in mathmapsDir.names : EndsWithJson(f)}
    /\ \A f \in manifestFile.files :
         /\ MapHas(seaCfgFile.assets, "mathmaps/" \o f)
         /\ f # "manifest.json" =>
              MapGet(seaCfgFile.assets, "mathmaps/" \o f)
                = "node_modules/speech-rule-engine/lib/mathmaps/" \o f
    /\ MapHas(seaCfgFile.assets, "mathmaps/manifest.json")
    /\ MapGet(seaCfgFile.assets, "mathmaps/manifest.json")
         = "dist/mathmaps-manifest.json"
    /\ \A p, q \in seaCfgFile.assets : p[1] = q[1] => p = q

\* A second run, over a sea-config.json that holds the entries of the first
\* run (one of them of a file that is gone since) and a changed directory.
C13_Witness ==
  /\ bpc = "done" /\ builds = 2
  /\ MapHas(seaCfgFile.assets, "mathmaps/base.json")
  /\ "base.json" \notin manifestFile.files
  /\ "en.json" \in manifestFile.files

\* The embedded manifest is absent or is no JSON.
ManifestUnusable == env.manifest.kind \in {"absent", "malformed"}

\* C14: a call of ensureExtractedAssets that fails (no access to embedded
\* assets, a manifest that is absent or malformed, a temporary directory
\* that cannot be made or written) returns without ending the run and
\* leaves SRE_JSON_PATH unset; while the path is unset and embedded assets
\* can be read, every locale load is served by an embedded-asset read (or by
\* the cache such a read filled), never by the filesystem.
C14_FailedExtractionNotFatal ==
  /\ [][(/\ ensureCalls' > ensureCalls
         /\ envPath = ""
         /\ \/ ~seaGetAsset'
            \/ ManifestUnusable
            \/ fsFault' /\ ~fsFault)
          => /\ envPath' = ""
             /\ globalPath' = ""
             /\ extractedDir' = ""
             /\ pc' # "done"
             /\ exitCode' = -1]_vars
  /\ [](seaGetAsset /\ envPath = "" =>
          \A i \in 1..Len(loads) :
            /\ loads[i].from \in {"assets", "cache"}
            /\ loads[i].ok = ~AssetThrows(FileOf(loads[i].locale))
            /\ loads[i].ok =>
                 loads[i].text
                   = textFromBuffer(AssetBytes(FileOf(loads[i].locale))))

\* The temporary directory could not be made or written, and a locale was
\* then loaded from the embedded assets.
C14_Witness ==
  /\ ensureCalls >= 1 /\ fsFault
  /\ seaGetAsset /\ envPath = "" /\ extractedDir = ""
  /\ Len(loads) >= 1
  /\ loads[1].from = "assets" /\ loads[1].ok
  /\ loads[1].text # <<>>

\* C15: the math engine is initialized before the speech engine module is
\* loaded; the asset extraction and the path resolution are over before the
\* module is loaded (hence before setupEngine is called and before the
\* engine asks for a locale); and no conversion is requested before both
\* engines are set up and every locale load has settled.
C15_StartupOrder ==
  /\ [](sreLoaded => (html /\ ensureCalls >= 1))
  /\ [][sreLoaded => (/\ ensureCalls' = ensureCalls
                      /\ envPath' = envPath
                      /\ globalPath' = globalPath)]_vars
  /\ [](pc \in {"engine", "select", "lines", "output"} =>
          (sreLoaded /\ html))
  /\ []((loads # <<>> \/ inflight # <<>>) => pc # "setupengine")
  /\ [](history # <<>> =>
          /\ html /\ sreLoaded
          /\ Len(loads) = Len(env.requests) /\ inflight = <<>>
          /\ pc \in {"lines", "output", "done"})
  /\ [][Len(history') > Len(history) => pc \in {"select", "lines"}]_vars

\* A conversion was made, after an engine setup that loaded a locale.
C15_Witness ==
  /\ Len(history) >= 1
  /\ html /\ sreLoaded /\ ensureCalls >= 1
  /\ Len(loads) >= 1

\* The speech texts among the pieces of a written text.
Written(pieces) == SelectSeq(pieces, LAMBDA piece : piece # NL)

\* The sink the command line selects: the output file, else standard output.
Sink == IF argv.output # Undefined THEN outFile ELSE stdout

\* Whether `suffix` is what `text` ends with.
EndsWith(text, suffix) ==
  /\ Len(text) >= Len(suffix)
  /\ SubSeq(text, Len(text) - Len(suffix) + 1, Len(text)) = suffix

\* C16: in every input mode and output mode, when the run ends with status
\* 0 (and no write failed) the speech of each expression that converted has
\* been written to the selected sink exactly once, in input order: none is
\* dropped, none is written twice.
C16_EveryResultWrittenOnce ==
  (Done /\ exitCode = 0 /\ exitCause = "end" /\ ~ioFailed) =>
    /\ Written(emitted) = Results(history)
    /\ EndsWith(Sink, emitted)

\* A Map holds one value per key.
OneValuePerKey(map) == \A p, q \in map : p[1] = q[1] => p = q

\* C17: both caches only grow: an entry of mathmapCache or of the
\* conversion cache is never removed and never given another value,
\* whatever the order in which the locale reads settle; a conversion that
\* fails adds no entry to the conversion cache.
C17_CachesOnlyGrow ==
  /\ [][cache \subseteq cache']_vars
  /\ [][mathmapCache \subseteq mathmapCache']_vars
  /\ [](OneValuePerKey(cache) /\ OneValuePerKey(mathmapCache))
  /\ [][(/\ Len(history') > Len(history)
         /\ ~history'[Len(history')].ok) => cache' = cache]_vars

\* A run that loaded a locale, failed to convert an expression, then
\* converted it and another one.
C17_Witness ==
  /\ mathmapCache # {}
  /\ Len(history) = 3
  /\ ~history[1].ok /\ history[2].ok /\ history[3].ok
  /\ history[2].expr = history[1].expr
  /\ Cardinality(cache) = 2

====
